---- MODULE Spec2Model ----
(***************************************************************************)
(* A model of the cell addressing, validation, formula evaluation and      *)
(* persistence code of Ariel Sheets (src/ArielSheets.py, class ExcelClone  *)
(* and class Sheet).                                                       *)
(*                                                                         *)
(* Conventions                                                             *)
(*   - A Python str is a sequence of one-character strings:                *)
(*     "=A1" is <<"=", "A", "1">>.                                         *)
(*   - A Python number is a record [n, d, f]: the rational n/d, f = TRUE   *)
(*     for a float and FALSE for an int.  d = 0 encodes the float          *)
(*     specials: n = 1 is inf, n = -1 is -inf, n = 0 is nan.  The inputs   *)
(*     of the model are chosen so that every float it computes is exactly  *)
(*     representable or is the correctly rounded quotient of two small     *)
(*     integers with a terminating decimal expansion, for which binary     *)
(*     floating point and rational arithmetic print the same string.       *)
(*   - A QTableWidget's items are a function from the coordinates that     *)
(*     hold an item to the item's text; a coordinate outside the domain    *)
(*     is a cell for which item(row, col) is None.                         *)
(*   - A raised exception is a record [exc |-> name]; an operator that     *)
(*     models a method returns the method's result together with the       *)
(*     state it leaves behind and the exception it raised, if any.         *)
(***************************************************************************)
EXTENDS Integers, Sequences, FiniteSets, TLC

VARIABLES
    tabs,         \* tab_widget: sequence of [name, sheet]; sheet = [cells, tables, cell_validations]
    cur,          \* tab_widget.currentIndex() + 1 (0: no current widget)
    window,       \* attributes of the ExcelClone instance: cell_validations, current_file_path
    disk,         \* the file save_file writes: NoFile or the JSON document
    op,           \* the last operation, its arguments and (had) the cells of the current sheet before it
    ret,          \* what the last operation returned
    exc           \* the exception the last operation let escape ("none" if none)

vars == <<tabs, cur, window, disk, op, ret, exc>>

----------------------------------------------------------------------------
(* Bounds of the model *)

MaxRow == 11        \* rows 0..MaxRow are encoded and decoded
MaxLen == 3         \* longest text handed to validate_cell_input
MaxSheets == 2      \* most tabs the workbook is grown to

----------------------------------------------------------------------------
(* Characters and strings *)

Letters == <<"A","B","C","D","E","F","G","H","I","J","K","L","M",
             "N","O","P","Q","R","S","T","U","V","W","X","Y","Z">>

Digits == <<"0","1","2","3","4","5","6","7","8","9">>

IsUpper(ch) == \E i \in 1..26 : Letters[i] = ch

IsDigit(ch) == \E i \in 1..10 : Digits[i] = ch

\* ord(ch) for the characters "0".."9" and "A".."Z"; 0 for any other character
Ord(ch) ==
    IF IsUpper(ch) THEN 64 + (CHOOSE i \in 1..26 : Letters[i] = ch)
    ELSE IF IsDigit(ch) THEN 47 + (CHOOSE i \in 1..10 : Digits[i] = ch)
    ELSE 0

\* chr(n) for 48..57 and 65..90; "[" is chr(91), the character after "Z"
Chr(n) ==
    IF n \in 65..90 THEN Letters[n - 64]
    ELSE IF n \in 48..57 THEN Digits[n - 47]
    ELSE "["

RECURSIVE NatToStr(_)
\* str(n) for an int n >= 0: its decimal digits, most significant first
NatToStr(n) ==
    IF n < 10 THEN <<Digits[n + 1]>>
    ELSE NatToStr(n \div 10) \o <<Digits[(n % 10) + 1]>>

\* str(n) for an int
IntToStr(n) == IF n < 0 THEN <<"-">> \o NatToStr(-n) ELSE NatToStr(n)

RECURSIVE StrToNat(_)
\* int(s) for a non-empty string of ASCII digits
StrToNat(s) ==
    IF Len(s) = 0 THEN 0
    ELSE 10 * StrToNat(SubSeq(s, 1, Len(s) - 1)) + (Ord(s[Len(s)]) - 48)

\* s.startswith(p)
StartsWith(s, p) == Len(s) >= Len(p) /\ SubSeq(s, 1, Len(p)) = p

\* s[i:] with a 0-based i
From(s, i) == SubSeq(s, i + 1, Len(s))

\* the length of the longest run of digits of s that starts at 1-based position i
RECURSIVE DigitRun(_, _)
DigitRun(s, i) ==
    IF i <= Len(s) /\ IsDigit(s[i]) THEN 1 + DigitRun(s, i + 1) ELSE 0

----------------------------------------------------------------------------
(* Numbers *)

RECURSIVE Gcd(_, _)
Gcd(a, b) == IF b = 0 THEN a ELSE Gcd(b, a % b)

Abs(x) == IF x < 0 THEN -x ELSE x

\* The number n/d in lowest terms
Norm(n, d, f) ==
    LET g == Gcd(Abs(n), d)
    IN  IF d = 0 THEN [n |-> n, d |-> 0, f |-> TRUE]
        ELSE [n |-> n \div g, d |-> d \div g, f |-> f]

PyInt(n) == [n |-> n, d |-> 1, f |-> FALSE]
PyFloat(n, d) == Norm(n, d, TRUE)
PosInf == [n |-> 1, d |-> 0, f |-> TRUE]     \* float('inf')
NegInf == [n |-> -1, d |-> 0, f |-> TRUE]    \* float('-inf')
NaN == [n |-> 0, d |-> 0, f |-> TRUE]        \* float('nan')

IsNaN(x) == x.d = 0 /\ x.n = 0

\* x <= y on Python numbers: every comparison with nan is False
NumLe(x, y) ==
    IF IsNaN(x) \/ IsNaN(y) THEN FALSE
    ELSE IF x.d = 0 /\ y.d = 0 THEN x.n <= y.n
    ELSE IF x.d = 0 THEN x.n < 0
    ELSE IF y.d = 0 THEN y.n > 0
    ELSE x.n * y.d <= y.n * x.d

\* x == y on Python numbers (1 == 1.0 is True, nan == nan is False)
NumEq(x, y) ==
    IF IsNaN(x) \/ IsNaN(y) THEN FALSE
    ELSE x.n = y.n /\ x.d = y.d

\* x < y
NumLt(x, y) == NumLe(x, y) /\ ~NumEq(x, y)

\* x + y; the result is a float as soon as one operand is; inf + -inf is nan
NumAdd(x, y) ==
    IF IsNaN(x) \/ IsNaN(y) THEN NaN
    ELSE IF x.d = 0 /\ y.d = 0 THEN (IF x.n = y.n THEN x ELSE NaN)
    ELSE IF x.d = 0 THEN x
    ELSE IF y.d = 0 THEN y
    ELSE Norm(x.n * y.d + y.n * x.d, x.d * y.d, x.f \/ y.f)

NumNeg(x) == [n |-> -x.n, d |-> x.d, f |-> x.f]

NumSub(x, y) == NumAdd(x, NumNeg(y))

Sign(k) == IF k > 0 THEN 1 ELSE IF k < 0 THEN -1 ELSE 0

\* x * y; 0 * inf is nan
NumMul(x, y) ==
    IF IsNaN(x) \/ IsNaN(y) THEN NaN
    ELSE IF x.d = 0 \/ y.d = 0
         THEN [n |-> Sign(x.n) * Sign(y.n), d |-> 0, f |-> TRUE]
    ELSE Norm(x.n * y.n, x.d * y.d, x.f \/ y.f)

\* x / y for y # 0 (true division: always a float); inf / inf is nan
NumDiv(x, y) ==
    IF IsNaN(x) \/ IsNaN(y) THEN NaN
    ELSE IF x.d = 0 /\ y.d = 0 THEN NaN
    ELSE IF x.d = 0 THEN [n |-> Sign(x.n) * Sign(y.n), d |-> 0, f |-> TRUE]
    ELSE IF y.d = 0 THEN PyFloat(0, 1)
    ELSE Norm(Sign(y.n) * x.n * y.d, Abs(y.n) * x.d, TRUE)

\* float(x) of a number
ToFloat(x) == [n |-> x.n, d |-> x.d, f |-> TRUE]

RECURSIVE FracDigits(_, _, _)
\* The decimal digits of r/d (0 <= r < d) after the point, at most k of them
FracDigits(r, d, k) ==
    IF r = 0 \/ k = 0 THEN <<>>
    ELSE <<Digits[((10 * r) \div d) + 1]>> \o FracDigits((10 * r) % d, d, k - 1)

\* str(x) of a Python number: an int prints its digits; a float prints
\* "inf", "-inf", "nan", or its shortest decimal expansion with at least one
\* digit after the point ("5.0", "0.5")
NumToStr(x) ==
    IF ~x.f THEN IntToStr(x.n)
    ELSE IF x.d = 0
         THEN (IF x.n > 0 THEN <<"i","n","f">>
               ELSE IF x.n < 0 THEN <<"-","i","n","f">>
               ELSE <<"n","a","n">>)
    ELSE LET a == Abs(x.n)
             frac == FracDigits(a % x.d, x.d, 17)
         IN  (IF x.n < 0 THEN <<"-">> ELSE <<>>)
             \o NatToStr(a \div x.d) \o <<".">>
             \o (IF frac = <<>> THEN <<"0">> ELSE frac)

\* str.lower() of one character, for the letters float() spells its specials with
Lower(ch) ==
    IF IsUpper(ch)
    THEN <<"a","b","c","d","e","f","g","h","i","j","k","l","m",
           "n","o","p","q","r","s","t","u","v","w","x","y","z">>[Ord(ch) - 64]
    ELSE ch

LowerStr(s) == [i \in 1..Len(s) |-> Lower(s[i])]

RECURSIVE Strip(_)
\* s.strip() for the whitespace character " "
Strip(s) ==
    IF Len(s) > 0 /\ s[1] = " " THEN Strip(Tail(s))
    ELSE IF Len(s) > 0 /\ s[Len(s)] = " " THEN Strip(SubSeq(s, 1, Len(s) - 1))
    ELSE s

RECURSIVE Pow10(_)
Pow10(k) == IF k = 0 THEN 1 ELSE 10 * Pow10(k - 1)

ValueError == [ok |-> FALSE, exc |-> "ValueError"]

Parsed(v) == [ok |-> TRUE, v |-> v]

\* float(s) for an unsigned, stripped s: "inf", "infinity", "nan" in any
\* case, or digits with at most one point and at least one digit.  (The
\* exponent and digit-separator forms need "e" after a digit or "_", which
\* no text of the model contains.)
ParseUnsigned(s) ==
    LET low == LowerStr(s)
        p == DigitRun(s, 1)
        q == IF p < Len(s) /\ s[p + 1] = "." THEN DigitRun(s, p + 2) ELSE 0
    IN  IF low = <<"i","n","f">> \/ low = <<"i","n","f","i","n","i","t","y">>
        THEN Parsed(PosInf)
        ELSE IF low = <<"n","a","n">> THEN Parsed(NaN)
        ELSE IF p = Len(s) /\ p > 0 THEN Parsed(PyFloat(StrToNat(s), 1))
        ELSE IF p < Len(s) /\ s[p + 1] = "." /\ p + 1 + q = Len(s) /\ p + q > 0
        THEN Parsed(PyFloat(StrToNat(SubSeq(s, 1, p)) * Pow10(q)
                            + StrToNat(SubSeq(s, p + 2, Len(s))),
                          Pow10(q)))
        ELSE ValueError

\* float(s) of a str: surrounding whitespace and one sign are allowed
ParseFloat(s) ==
    LET t == Strip(s)
        signed == Len(t) > 0 /\ (t[1] = "-" \/ t[1] = "+")
        u == ParseUnsigned(IF signed THEN Tail(t) ELSE t)
    IN  IF u.ok /\ signed /\ t[1] = "-" THEN Parsed(NumNeg(u.v)) ELSE u

----------------------------------------------------------------------------
(* eval() of an arithmetic expression *)

\* A value whose computation raised ZeroDivisionError.  The expression is
\* compiled before it runs, so the parse goes on: a syntax error anywhere in
\* the text wins over a division by zero.
ZeroDiv == [n |-> 0, d |-> 0, f |-> FALSE]

IsZeroDiv(x) == x.d = 0 /\ ~x.f

\* x <o> y for o one of "+", "-", "*", "/"
BinOp(o, x, y) ==
    IF IsZeroDiv(x) \/ IsZeroDiv(y) THEN ZeroDiv
    ELSE IF o = "+" THEN NumAdd(x, y)
    ELSE IF o = "-" THEN NumSub(x, y)
    ELSE IF o = "*" THEN NumMul(x, y)
    ELSE IF y.d # 0 /\ y.n = 0 THEN ZeroDiv
    ELSE NumDiv(x, y)

RECURSIVE SkipSpaces(_, _)
\* the first position >= i of s that holds no space
SkipSpaces(s, i) == IF i <= Len(s) /\ s[i] = " " THEN SkipSpaces(s, i + 1) ELSE i

SyntaxError == [k |-> "exc", exc |-> "SyntaxError"]
\* A form Python accepts that this evaluator does not cover: "**", "//",
\* "()" and a call such as "1(2)"
Unmodelled == [k |-> "unmodelled"]
Val(v, pos) == [k |-> "val", v |-> v, pos |-> pos]

\* The number literal whose integer digits are ip and whose digits after the
\* point are fp, ending before position pos: an int literal with a leading
\* zero must be all zeros
Literal(ip, dot, fp, pos) ==
    IF ~dot
    THEN IF Len(ip) = 0 THEN SyntaxError
         ELSE IF Len(ip) > 1 /\ ip[1] = "0" /\ StrToNat(ip) # 0 THEN SyntaxError
         ELSE Val(PyInt(StrToNat(ip)), pos)
    ELSE IF Len(ip) + Len(fp) = 0 THEN SyntaxError
         ELSE Val(PyFloat(StrToNat(ip) * Pow10(Len(fp)) + StrToNat(fp), Pow10(Len(fp))), pos)

\* The literal at position i, given the length p of its run of integer digits
\* and the length q of the run after its point
LiteralAt(s, i, p, dot, q) ==
    Literal(SubSeq(s, i, i + p - 1), dot, SubSeq(s, i + p + 1, i + p + q),
            IF dot THEN i + p + q + 1 ELSE i + p)

FractionAt(s, i, p, dot) ==
    LiteralAt(s, i, p, dot, IF dot THEN DigitRun(s, i + p + 1) ELSE 0)

PointAt(s, i, p) == FractionAt(s, i, p, i + p <= Len(s) /\ s[i + p] = ".")

\* A number literal at position i: digits with at most one point and at least
\* one digit
NumberAt(s, i) == PointAt(s, i, DigitRun(s, i))

\* r with the spaces after it skipped
Spaced(s, r) == IF r.k # "val" THEN r ELSE Val(r.v, SkipSpaces(s, r.pos))

\* The value e of a parenthesised expression, which must end at a ")"
Closed(s, e) ==
    IF e.k # "val" THEN e
    ELSE IF e.pos <= Len(s) /\ s[e.pos] = ")" THEN Val(e.v, e.pos + 1)
    ELSE SyntaxError

\* -f or +f
Signed(sign, f) ==
    IF f.k # "val" THEN f
    ELSE IF sign = "-" /\ ~IsZeroDiv(f.v) THEN Val(NumNeg(f.v), f.pos)
    ELSE f

\* An atom a followed by "(" is a call, followed by "**" a power
Trailer(s, a) ==
    IF a.k # "val" THEN a
    ELSE IF a.pos <= Len(s) /\ s[a.pos] = "(" THEN Unmodelled
    ELSE IF a.pos < Len(s) /\ s[a.pos] = "*" /\ s[a.pos + 1] = "*" THEN Unmodelled
    ELSE a

\* acc <o> f, ending where f ends
Applied(o, acc, f) == IF f.k # "val" THEN f ELSE Val(BinOp(o, acc.v, f.v), f.pos)

RECURSIVE EvExpr(_, _), EvExprRest(_, _), EvTerm(_, _), EvTermRest(_, _),
          EvFactor(_, _), EvAtom(_, _)

\* atom: NUMBER | "(" expr ")", at a position i that holds no space
EvAtom(s, i) ==
    IF i > Len(s) THEN SyntaxError
    ELSE IF s[i] # "(" THEN Spaced(s, NumberAt(s, i))
    ELSE IF SkipSpaces(s, i + 1) <= Len(s) /\ s[SkipSpaces(s, i + 1)] = ")" THEN Unmodelled
    ELSE Spaced(s, Closed(s, EvExpr(s, i + 1)))

\* factor: ("+" | "-") factor | atom, at a position i that holds no space
EvFactor(s, i) ==
    IF i <= Len(s) /\ (s[i] = "-" \/ s[i] = "+")
    THEN Signed(s[i], EvFactor(s, SkipSpaces(s, i + 1)))
    ELSE Trailer(s, EvAtom(s, i))

\* the (("*" | "/") factor)* that follows a term's value acc
EvTermRest(s, acc) ==
    IF acc.k # "val" THEN acc
    ELSE IF acc.pos <= Len(s) /\ (s[acc.pos] = "*" \/ s[acc.pos] = "/")
    THEN IF acc.pos < Len(s) /\ s[acc.pos] = "/" /\ s[acc.pos + 1] = "/"
         THEN Unmodelled
         ELSE EvTermRest(s, Applied(s[acc.pos], acc,
                                    EvFactor(s, SkipSpaces(s, acc.pos + 1))))
    ELSE acc

\* term: factor (("*" | "/") factor)*
EvTerm(s, i) == EvTermRest(s, EvFactor(s, i))

\* the (("+" | "-") term)* that follows an expression's value acc
EvExprRest(s, acc) ==
    IF acc.k # "val" THEN acc
    ELSE IF acc.pos <= Len(s) /\ (s[acc.pos] = "+" \/ s[acc.pos] = "-")
    THEN EvExprRest(s, Applied(s[acc.pos], acc, EvTerm(s, SkipSpaces(s, acc.pos + 1))))
    ELSE acc

\* expr: term (("+" | "-") term)*
EvExpr(s, i) == EvExprRest(s, EvTerm(s, SkipSpaces(s, i)))

\* The outcome of eval given the parse e of the whole text
Evaluated(s, e) ==
    IF e.k # "val" THEN e
    ELSE IF e.pos <= Len(s) THEN SyntaxError
    ELSE IF IsZeroDiv(e.v) THEN [k |-> "exc", exc |-> "ZeroDivisionError"]
    ELSE e

\* eval(s) of a str over the characters "0123456789+-*/() .": the value, or
\* the exception raised
PyEval(s) == Evaluated(s, EvExpr(s, 1))

----------------------------------------------------------------------------
(* Address codec *)

\* The mutant of get_cell_id: the row is written 0-based
get_cell_id_zero_based(row, col) == <<Chr(65 + col)>> \o IntToStr(row)

\* get_cell_id: f"{chr(65 + col)}{row + 1}"
get_cell_id(row, col) == <<Chr(65 + col)>> \o IntToStr(row + 1)

\* re.match(r"([A-Z])(\d+)", cell_id): the match anchors at the start only;
\* \d+ is greedy.  NoMatch, or the two groups.
NoMatch == [matched |-> FALSE]

MatchCellId(cell_id) ==
    IF Len(cell_id) >= 2 /\ IsUpper(cell_id[1]) /\ IsDigit(cell_id[2])
    THEN [matched |-> TRUE,
          g1 |-> cell_id[1],
          g2 |-> SubSeq(cell_id, 2, 1 + DigitRun(cell_id, 2))]
    ELSE NoMatch

\* get_cell_from_id, lines 884-887: the coordinate the address names,
\* <<row, col>>, when the pattern matches
CellIdCoord(cell_id) ==
    LET m == MatchCellId(cell_id)
    IN  <<StrToNat(m.g2) - 1, Ord(m.g1) - 65>>

\* open_file, lines 758-759: col = ord(cell_id[0]) - 65; row = int(cell_id[1:]) - 1
OpenFileCoord(cell_id) == <<StrToNat(From(cell_id, 1)) - 1, Ord(cell_id[1]) - 65>>

----------------------------------------------------------------------------
(* Sheets: class Sheet(QTableWidget) *)

RowCount == 50       \* Sheet.__init__: rows=50
ColumnCount == 26    \* Sheet.__init__: cols=26

\* Python's None, where a str or an item is expected
None == <<"None">>

\* An item that belongs to no table: its row() and column() are -1
Detached == <<-1, -1>>

\* Sheet(): no item, no validation, no table
NewSheet == [cells |-> <<>>, tables |-> <<>>, cell_validations |-> <<>>]

\* sheet.item(row, col) is not None
HasItem(sheet, row, col) == <<row, col>> \in DOMAIN sheet.cells

\* sheet.item(row, col).text()
ItemText(sheet, row, col) == sheet.cells[<<row, col>>]

InTable(row, col) == row \in 0..(RowCount - 1) /\ col \in 0..(ColumnCount - 1)

\* sheet.setItem(row, col, QTableWidgetItem(text)), and item.setText(text) for
\* an item of the sheet; QTableWidget ignores a coordinate outside the table
SetItem(sheet, row, col, text) ==
    IF InTable(row, col)
    THEN [sheet EXCEPT !.cells =
             [rc \in (DOMAIN sheet.cells) \cup {<<row, col>>} |->
                 IF rc = <<row, col>> THEN text ELSE sheet.cells[rc]]]
    ELSE sheet

----------------------------------------------------------------------------
(* Formula evaluation: ExcelClone.evaluate_formula and what it calls.
   Each operator takes the window's attributes win (the instance __dict__)
   and returns [exc, val, win]: the exception raised or "none", the value
   returned, and the attributes afterwards. *)

Returned(val, win) == [exc |-> "none", val |-> val, win |-> win]
Raised(name, win) == [exc |-> name, val |-> None, win |-> win]

\* get_cell_from_id: the item the address names, created with text "" when
\* the cell holds none.  The item is looked up in self.spreadsheet.  val is
\* None, or the item's <<row, col>> (Detached for an item the table refused).
get_cell_from_id(win, cell_id) ==
    LET rc == CellIdCoord(cell_id)
    IN  IF ~MatchCellId(cell_id).matched THEN Returned(None, win)
        ELSE IF "spreadsheet" \notin DOMAIN win THEN Raised("AttributeError", win)
        ELSE IF HasItem(win.spreadsheet, rc[1], rc[2])
             THEN Returned(rc, win)
        ELSE IF InTable(rc[1], rc[2])
             THEN Returned(rc, [win EXCEPT !.spreadsheet = SetItem(@, rc[1], rc[2], <<>>)])
        ELSE Returned(Detached, win)

\* the number of ":" in s
RECURSIVE CountColons(_)
CountColons(s) ==
    IF Len(s) = 0 THEN 0
    ELSE (IF s[1] = ":" THEN 1 ELSE 0) + CountColons(Tail(s))

\* the position of the first ":" of s (Len(s) + 1 if there is none)
RECURSIVE FirstColon(_, _)
FirstColon(s, i) == IF i > Len(s) \/ s[i] = ":" THEN i ELSE FirstColon(s, i + 1)

Min(a, b) == IF a <= b THEN a ELSE b
Max(a, b) == IF a >= b THEN a ELSE b

\* The coordinates get_cells_in_range visits: rows min..max, and within a
\* row columns min..max, ascending
RangeCoords(r1, c1, r2, c2) ==
    LET rmin == Min(r1, r2)
        cmin == Min(c1, c2)
        w == Max(c1, c2) - cmin + 1
        h == Max(r1, r2) - rmin + 1
    IN  [k \in 1..(h * w) |-> <<rmin + ((k - 1) \div w), cmin + ((k - 1) % w)>>]

\* The loop of get_cells_in_range over coords on the sheet self.spreadsheet:
\* a cell without an item gets one with text "0"; val is the sequence of the
\* texts of the items visited
CollectCells(win, sheet, coords) ==
    Returned([i \in DOMAIN coords |->
                 IF HasItem(sheet, coords[i][1], coords[i][2])
                 THEN ItemText(sheet, coords[i][1], coords[i][2])
                 ELSE <<"0">>],
             [win EXCEPT !.spreadsheet.cells =
                 [rc \in (DOMAIN sheet.cells)
                         \cup {c \in {coords[i] : i \in DOMAIN coords} : InTable(c[1], c[2])} |->
                     IF rc \in DOMAIN sheet.cells THEN sheet.cells[rc] ELSE <<"0">>]])

\* get_cells_in_range once both end items are fetched: start_item.row() of a
\* None raises AttributeError
RangeBetween(s, e) ==
    IF e.exc # "none" THEN e
    ELSE IF s.val = None \/ e.val = None THEN Raised("AttributeError", e.win)
    ELSE CollectCells(e.win, e.win.spreadsheet,
                      RangeCoords(s.val[1], s.val[2], e.val[1], e.val[2]))

\* get_cells_in_range once the start item is fetched
RangeFrom(s, end_id) ==
    IF s.exc # "none" THEN s ELSE RangeBetween(s, get_cell_from_id(s.win, end_id))

\* start, end = range_str.split(':') with k the position of the first ":"
SplitRange(win, range_str, k) ==
    RangeFrom(get_cell_from_id(win, SubSeq(range_str, 1, k - 1)),
              SubSeq(range_str, k + 1, Len(range_str)))

\* get_cells_in_range: unpacking anything but two parts raises ValueError
get_cells_in_range(win, range_str) ==
    IF CountColons(range_str) # 1 THEN Raised("ValueError", win)
    ELSE SplitRange(win, range_str, FirstColon(range_str, 1))

\* The messages of the evaluator
ErrFunctionFormat == <<"E","R","R","O","R",":"," ","I","n","v","a","l","i","d"," ","f","u","n","c","t","i","o","n"," ","f","o","r","m","a","t">>
ErrInvalid == <<"E","R","R","O","R",":"," ","I","n","v","a","l","i","d"," ">>
ErrRangeSuffix == <<" ","r","a","n","g","e">>
ErrCellReference == <<"E","R","R","O","R",":"," ","I","n","v","a","l","i","d"," ","c","e","l","l"," ","r","e","f","e","r","e","n","c","e">>
ErrCharacters == <<"E","R","R","O","R",":"," ","I","n","v","a","l","i","d"," ","c","h","a","r","a","c","t","e","r","s"," ","i","n"," ","f","o","r","m","u","l","a">>
ErrFormulaPrefix == <<"E","R","R","O","R",":"," ","I","n","v","a","l","i","d"," ","f","o","r","m","u","l","a"," ","(">>
ErrPrefix == <<"E","R","R","O","R">>

\* f"ERROR: Invalid {func_name} range"
ErrRange(func_name) == ErrInvalid \o func_name \o ErrRangeSuffix

\* str(e) of the exception eval raised, without the interpreter's position
\* and wording details
Cause(name) ==
    IF name = "ZeroDivisionError" THEN <<"d","i","v","i","s","i","o","n"," ","b","y"," ","z","e","r","o">>
    ELSE <<"i","n","v","a","l","i","d"," ","s","y","n","t","a","x">>

\* f"ERROR: Invalid formula ({str(e)})"
ErrFormula(name) == ErrFormulaPrefix \o Cause(name) \o <<")">>

SUM == <<"S","U","M">>
AVERAGE == <<"A","V","E","R","A","G","E">>
MIN == <<"M","I","N">>
MAX == <<"M","A","X">>
COUNT == <<"C","O","U","N","T">>

\* float(cell.text() or 0)
CellNumber(text) == IF text = <<>> THEN Parsed(PyFloat(0, 1)) ELSE ParseFloat(text)

RECURSIVE SumOf(_)
\* sum(values): 0 + values[0] + values[1] + ...
SumOf(values) ==
    IF Len(values) = 0 THEN PyInt(0)
    ELSE NumAdd(SumOf(SubSeq(values, 1, Len(values) - 1)), values[Len(values)])

RECURSIVE MinOf(_)
\* min(values): the first of the smallest values
MinOf(values) ==
    IF Len(values) = 1 THEN values[1]
    ELSE LET m == MinOf(SubSeq(values, 1, Len(values) - 1))
         IN  IF NumLt(values[Len(values)], m) THEN values[Len(values)] ELSE m

RECURSIVE MaxOf(_)
\* max(values): the first of the largest values
MaxOf(values) ==
    IF Len(values) = 1 THEN values[1]
    ELSE LET m == MaxOf(SubSeq(values, 1, Len(values) - 1))
         IN  IF NumLt(m, values[Len(values)]) THEN values[Len(values)] ELSE m

\* len([v for v in values if v != 0])
CountNonZero(values) == Cardinality({i \in DOMAIN values : ~NumEq(values[i], PyInt(0))})

\* the position of the last ")" of s (0 if there is none)
RECURSIVE LastParen(_, _)
LastParen(s, i) == IF i = 0 \/ s[i] = ")" THEN i ELSE LastParen(s, i - 1)

\* the length of the run of upper-case letters that s starts with
RECURSIVE UpperRun(_, _)
UpperRun(s, i) == IF i <= Len(s) /\ IsUpper(s[i]) THEN 1 + UpperRun(s, i + 1) ELSE 0

\* The aggregate func_name of the numbers values
Aggregate(func_name, values) ==
    IF Len(values) = 0 THEN <<"0">>
    ELSE IF func_name = SUM THEN NumToStr(SumOf(values))
    ELSE IF func_name = AVERAGE THEN NumToStr(NumDiv(SumOf(values), PyInt(Len(values))))
    ELSE IF func_name = MIN THEN NumToStr(MinOf(values))
    ELSE IF func_name = MAX THEN NumToStr(MaxOf(values))
    ELSE IF func_name = COUNT THEN NumToStr(PyInt(CountNonZero(values)))
    ELSE None

\* values = [float(cell.text() or 0) for cell in cells] and the aggregate of
\* them; a text float() refuses raises ValueError, which the handler turns
\* into the range error
AggregateParsed(func_name, parsed, win) ==
    IF \E i \in DOMAIN parsed : ~parsed[i].ok THEN Returned(ErrRange(func_name), win)
    ELSE Returned(Aggregate(func_name, [i \in DOMAIN parsed |-> parsed[i].v]), win)

\* The try block of handle_special_function, given what get_cells_in_range did:
\* any exception is answered with the range error
AggregateCells(func_name, cells) ==
    IF cells.exc # "none" THEN Returned(ErrRange(func_name), cells.win)
    ELSE AggregateParsed(func_name, [i \in DOMAIN cells.val |-> CellNumber(cells.val[i])],
                         cells.win)

\* handle_special_function once the pattern is applied: u is the length of
\* the leading run of letters, close the position of the last ")"
MatchFunction(win, formula, u, close) ==
    IF ~(u > 0 /\ u < Len(formula) /\ formula[u + 1] = "(" /\ close > u + 1)
    THEN Returned(ErrFunctionFormat, win)
    ELSE AggregateCells(SubSeq(formula, 1, u),
                        get_cells_in_range(win, SubSeq(formula, u + 2, close - 1)))

\* handle_special_function: re.match(r'([A-Z]+)\((.*)\)', formula) takes the
\* leading letters as the name and the text between the "(" after them and
\* the last ")" of the formula as the range
handle_special_function(win, formula) ==
    MatchFunction(win, formula, UpperRun(formula, 1), LastParen(formula, Len(formula)))

\* re.findall(r'[A-Z]\d+', s) from position i on: the non-overlapping matches,
\* left to right
RECURSIVE FindRefs(_, _)
FindRefs(s, i) ==
    IF i >= Len(s) THEN <<>>
    ELSE IF IsUpper(s[i]) /\ IsDigit(s[i + 1])
         THEN <<SubSeq(s, i, i + DigitRun(s, i + 1))>>
              \o FindRefs(s, i + 1 + DigitRun(s, i + 1))
    ELSE FindRefs(s, i + 1)

\* s.replace(old, new) for a non-empty old: every non-overlapping occurrence,
\* left to right
RECURSIVE Replace(_, _, _)
Replace(s, old, new) ==
    IF Len(s) < Len(old) THEN s
    ELSE IF StartsWith(s, old) THEN new \o Replace(From(s, Len(old)), old, new)
    ELSE <<s[1]>> \o Replace(Tail(s), old, new)

\* item.text() of the item get_cell_from_id returned
TextOf(win, item) ==
    IF item = Detached THEN <<>> ELSE ItemText(win.spreadsheet, item[1], item[2])

RECURSIVE ReplaceRefs(_, _, _)

\* One turn of the loop once float(cell_value) is tried: ValueError ends the
\* loop with the reference error
Substitute(win, formula, refs, v) ==
    IF ~v.ok THEN Returned(ErrCellReference, win)
    ELSE ReplaceRefs(win, Replace(formula, refs[1], NumToStr(v.v)), Tail(refs))

\* One turn of the loop once the item c of the reference is fetched
ResolveRef(formula, refs, c) ==
    IF c.exc # "none" THEN c
    ELSE Substitute(c.win, formula, refs,
                    ParseFloat(IF c.val = None THEN <<"0">> ELSE TextOf(c.win, c.val)))

\* The loop of replace_cell_references over the references not yet handled
ReplaceRefs(win, formula, refs) ==
    IF Len(refs) = 0 THEN Returned(formula, win)
    ELSE ResolveRef(formula, refs, get_cell_from_id(win, refs[1]))

\* replace_cell_references
replace_cell_references(win, formula) == ReplaceRefs(win, formula, FindRefs(formula, 1))

AllowedChars == {"0","1","2","3","4","5","6","7","8","9","+","-","*","/","(",")"," ","."}

SpecialPrefixes == {SUM \o <<"(">>, AVERAGE \o <<"(">>, MIN \o <<"(">>,
                    MAX \o <<"(">>, COUNT \o <<"(">>}

\* The try block of evaluate_formula, given what eval did
EvalResult(win, e) ==
    IF e.k = "val" THEN Returned(NumToStr(e.v), win)
    ELSE IF e.k = "exc" THEN Returned(ErrFormula(e.exc), win)
    ELSE Raised("unmodelled", win)

\* evaluate_formula once the references are replaced
EvaluateReplaced(r) ==
    IF r.exc # "none" THEN r
    ELSE IF StartsWith(r.val, ErrPrefix) THEN r
    ELSE IF \E i \in DOMAIN r.val : r.val[i] \notin AllowedChars
         THEN Returned(ErrCharacters, r.win)
    ELSE EvalResult(r.win, PyEval(r.val))

\* evaluate_formula once the equals sign is removed
EvaluateBody(win, body) ==
    IF \E p \in SpecialPrefixes : StartsWith(body, p)
    THEN handle_special_function(win, body)
    ELSE EvaluateReplaced(replace_cell_references(win, body))

\* The mutant of evaluate_formula: the test for a leading "=" is missing
evaluate_formula_no_literal(win, formula) == EvaluateBody(win, formula)

\* evaluate_formula
evaluate_formula(win, formula) ==
    IF ~StartsWith(formula, <<"=">>) THEN Returned(formula, win)
    ELSE EvaluateBody(win, From(formula, 1))

----------------------------------------------------------------------------
(* Validation and the itemChanged handler *)

\* The mutant of validate_cell_input: the upper bound of a Custom Range is
\* exclusive
validate_cell_input_strict_max(sheet, row, col, value) ==
    LET cell_id == get_cell_id(row, col)
        validation == sheet.cell_validations[cell_id]
        num == ParseFloat(value)
        lo == IF validation.min # None /\ validation.min # <<>>
              THEN ParseFloat(validation.min) ELSE Parsed(NegInf)
        hi == IF validation.max # None /\ validation.max # <<>>
              THEN ParseFloat(validation.max) ELSE Parsed(PosInf)
    IN  IF cell_id \notin DOMAIN sheet.cell_validations THEN TRUE
        ELSE IF validation.type = "Number Only" THEN num.ok
        ELSE IF validation.type = "Text Only" THEN ~num.ok
        ELSE IF validation.type = "Custom Range"
             THEN num.ok /\ lo.ok /\ hi.ok /\ NumLe(lo.v, num.v) /\ NumLt(num.v, hi.v)
        ELSE TRUE

\* The mutant of validate_cell_input: Text Only answers like Number Only
validate_cell_input_text_as_number(sheet, row, col, value) ==
    LET cell_id == get_cell_id(row, col)
        validation == sheet.cell_validations[cell_id]
        num == ParseFloat(value)
        lo == IF validation.min # None /\ validation.min # <<>>
              THEN ParseFloat(validation.min) ELSE Parsed(NegInf)
        hi == IF validation.max # None /\ validation.max # <<>>
              THEN ParseFloat(validation.max) ELSE Parsed(PosInf)
    IN  IF cell_id \notin DOMAIN sheet.cell_validations THEN TRUE
        ELSE IF validation.type = "Number Only" THEN num.ok
        ELSE IF validation.type = "Text Only" THEN num.ok
        ELSE IF validation.type = "Custom Range"
             THEN num.ok /\ lo.ok /\ hi.ok /\ NumLe(lo.v, num.v) /\ NumLe(num.v, hi.v)
        ELSE TRUE

\* validate_cell_input for the item at (row, col) holding value; sheet is
\* tab_widget.currentWidget().  A rule is [type, min, max]; min and max are a
\* str or None, and float() of value, min or max raising ValueError makes a
\* Custom Range answer False.
validate_cell_input(sheet, row, col, value) ==
    LET cell_id == get_cell_id(row, col)
        validation == sheet.cell_validations[cell_id]
        num == ParseFloat(value)
        lo == IF validation.min # None /\ validation.min # <<>>
              THEN ParseFloat(validation.min) ELSE Parsed(NegInf)
        hi == IF validation.max # None /\ validation.max # <<>>
              THEN ParseFloat(validation.max) ELSE Parsed(PosInf)
    IN  IF cell_id \notin DOMAIN sheet.cell_validations THEN TRUE
        ELSE IF validation.type = "Number Only" THEN num.ok
        ELSE IF validation.type = "Text Only" THEN ~num.ok
        ELSE IF validation.type = "Custom Range"
             THEN num.ok /\ lo.ok /\ hi.ok /\ NumLe(lo.v, num.v) /\ NumLe(num.v, hi.v)
        ELSE TRUE

\* The program's objects: w = [tabs, cur, window]
World(t, c, win) == [tabs |-> t, cur |-> c, window |-> win]

Done(w) == [exc |-> "none", w |-> w]

\* w with the text of the item at (row, col) of the sheet of tab k replaced
WithText(w, k, row, col, text) ==
    [w EXCEPT !.tabs[k].sheet = SetItem(@, row, col, text)]

\* The mutant of WriteResult: the result is written into every cell that
\* holds an item
WriteResultEverywhere(w, k, row, col, r) ==
    IF r.exc # "none" THEN [exc |-> r.exc, w |-> [w EXCEPT !.window = r.win]]
    ELSE Done([w EXCEPT !.window = r.win,
                        !.tabs[k].sheet.cells = [rc \in DOMAIN @ |-> r.val]])

\* cell_changed once evaluate_formula is done: an exception escapes the
\* handler and the item keeps the formula.  The signal disconnected while the
\* result is written is that of the current sheet: the item of another sheet
\* (one open_file is loading) emits itemChanged for the result, and the
\* nested call replaces a result the current sheet's rule rejects by ""
WriteResult(w, k, row, col, r) ==
    IF r.exc # "none" THEN [exc |-> r.exc, w |-> [w EXCEPT !.window = r.win]]
    ELSE IF k = w.cur \/ validate_cell_input(w.tabs[w.cur].sheet, row, col, r.val)
    THEN Done(WithText([w EXCEPT !.window = r.win], k, row, col, r.val))
    ELSE Done(WithText([w EXCEPT !.window = r.win], k, row, col, <<>>))

\* cell_changed once the item's text is read
HandleText(w, k, row, col, text) ==
    IF ~validate_cell_input(w.tabs[w.cur].sheet, row, col, text)
    THEN Done(WithText(w, k, row, col, <<>>))
    ELSE IF ~StartsWith(text, <<"=">>) THEN Done(w)
    ELSE WriteResult(w, k, row, col, evaluate_formula(w.window, text))

\* cell_changed(item) for the item at (row, col) of the sheet of tab k, run
\* when the sheet emits itemChanged.  The rules consulted are those of the
\* current tab.  A rejected text is replaced by ""; that setText emits
\* itemChanged once more, and the nested call leaves "" in place whether or
\* not "" passes the rule.
cell_changed(w, k, row, col) ==
    IF w.cur = 0 THEN Done(w)
    ELSE HandleText(w, k, row, col, ItemText(w.tabs[k].sheet, row, col))

\* sheet.setItem(row, col, QTableWidgetItem(text)) on the sheet of tab k, or
\* item.setText(text) on its item there, with itemChanged connected to
\* cell_changed: the table stores the text and emits the signal
set_item(w, k, row, col, text) ==
    IF ~InTable(row, col) THEN Done(w)
    ELSE cell_changed(WithText(w, k, row, col, text), k, row, col)

----------------------------------------------------------------------------
(* Sheets of the workbook: add_sheet, close_sheet *)

\* add_sheet once the dialog loop ends with a name no tab carries: the new
\* sheet is appended and made current
add_sheet(w, name) ==
    [w EXCEPT !.tabs = Append(@, [name |-> name, sheet |-> NewSheet]),
              !.cur = Len(w.tabs) + 1]

\* The sequence s without its element i
RemoveAt(s, i) == [j \in 1..(Len(s) - 1) |-> IF j < i THEN s[j] ELSE s[j + 1]]

\* close_sheet(index), index the 1-based position of the tab: the last sheet
\* stays; otherwise QTabWidget.removeTab moves the current index to the tab
\* that followed a removed current tab (or to the new last tab)
close_sheet(w, index) ==
    IF Len(w.tabs) <= 1 THEN w
    ELSE [w EXCEPT !.tabs = RemoveAt(@, index),
                   !.cur = IF index < w.cur THEN w.cur - 1
                           ELSE IF index = w.cur THEN Min(w.cur, Len(w.tabs) - 1)
                           ELSE w.cur]

----------------------------------------------------------------------------
(* Tables: create_table *)

Header == <<"H","e","a","d","e","r"," ">>
Data == <<"D","a","t","a">>

\* The items create_table sets, in order: the header row "Header 1",
\* "Header 2", ..., then rows - 1 rows of "Data"
TableItems(start_row, start_col, rows, cols) ==
    [i \in 1..(rows * cols) |->
        [row |-> start_row + ((i - 1) \div cols),
         col |-> start_col + ((i - 1) % cols),
         text |-> IF i <= cols THEN Header \o IntToStr(i) ELSE Data]]

RECURSIVE SetItems(_, _, _)

\* The rest of a run of setItem calls after one of them returned r
SetItemsAfter(r, k, items) ==
    IF r.exc # "none" THEN r ELSE SetItems(r.w, k, items)

\* setItem for each of items on the sheet of tab k, every one answered by
\* cell_changed; an exception that escapes the handler ends the run
SetItems(w, k, items) ==
    IF Len(items) = 0 THEN Done(w)
    ELSE SetItemsAfter(set_item(w, k, items[1].row, items[1].col, items[1].text),
                       k, Tail(items))

Table(start_row, start_col, rows, cols) ==
    [start_row |-> start_row, start_col |-> start_col, rows |-> rows, cols |-> cols]

\* create_table, lines 477-486: the region is appended to the current
\* sheet's tables
StoreTable(r, table) ==
    IF r.exc # "none" THEN r
    ELSE Done([r.w EXCEPT !.tabs[r.w.cur].sheet.tables = Append(@, table)])

\* create_table on the current sheet
create_table(w, start_row, start_col, rows, cols) ==
    StoreTable(SetItems(w, w.cur, TableItems(start_row, start_col, rows, cols)),
               Table(start_row, start_col, rows, cols))

----------------------------------------------------------------------------
(* Tables: sort_table *)

\* The printable ASCII characters, chr(32) .. chr(126), at their places; the
\* quote, the backslash and the backtick are left out of the texts modelled
Printable ==
    <<" ","!","(quote)","#","$","%","&","'","(",")","*","+",",","-",".","/",
      "0","1","2","3","4","5","6","7","8","9",":",";","<","=",">","?",
      "@","A","B","C","D","E","F","G","H","I","J","K","L","M","N","O",
      "P","Q","R","S","T","U","V","W","X","Y","Z","[","(backslash)","]","^","_",
      "(backtick)","a","b","c","d","e","f","g","h","i","j","k","l","m","n","o",
      "p","q","r","s","t","u","v","w","x","y","z","{","|","}","~">>

\* ord(ch) for a printable ASCII character
CodePoint(ch) == 31 + (CHOOSE i \in 1..95 : Printable[i] = ch)

RECURSIVE StrLess(_, _)
\* a < b on str: by code point, a proper prefix before the longer string
StrLess(a, b) ==
    IF Len(b) = 0 THEN FALSE
    ELSE IF Len(a) = 0 THEN TRUE
    ELSE IF a[1] = b[1] THEN StrLess(Tail(a), Tail(b))
    ELSE CodePoint(a[1]) < CodePoint(b[1])

RECURSIVE InsertRow(_, _, _)
\* sorted with row_data put after every row whose key is not greater
InsertRow(sorted, row_data, k) ==
    IF Len(sorted) = 0 THEN <<row_data>>
    ELSE IF StrLess(row_data[k], sorted[1][k]) THEN <<row_data>> \o sorted
    ELSE <<sorted[1]>> \o InsertRow(Tail(sorted), row_data, k)

RECURSIVE SortedRows(_, _, _)
\* data.sort(key=lambda x: x[col_to_sort]) with k = col_to_sort + 1 and n the
\* number of rows taken: ascending by key, rows of equal keys in their order
SortedRows(data, k, n) ==
    IF n = 0 THEN <<>>
    ELSE InsertRow(SortedRows(data, k, n - 1), data[n], k)

\* The table holds the cell: the condition of lines 497-498
Contains(t, current_row, current_col) ==
    /\ t.start_row <= current_row /\ current_row < t.start_row + t.rows
    /\ t.start_col <= current_col /\ current_col < t.start_col + t.cols

\* The mutant of FindTable: the loop runs to its end, and the last table
\* that holds the cell is kept
FindTableLast(sheet, current_row, current_col) ==
    IF \E i \in DOMAIN sheet.tables : Contains(sheet.tables[i], current_row, current_col)
    THEN <<sheet.tables[CHOOSE i \in DOMAIN sheet.tables :
              /\ Contains(sheet.tables[i], current_row, current_col)
              /\ \A j \in (i + 1)..Len(sheet.tables) :
                    ~Contains(sheet.tables[j], current_row, current_col)]>>
    ELSE <<>>

\* The first table of the sheet that holds the cell, as a sequence of at
\* most one table
FindTable(sheet, current_row, current_col) ==
    IF \E i \in DOMAIN sheet.tables :
           /\ sheet.tables[i].start_row <= current_row
           /\ current_row < sheet.tables[i].start_row + sheet.tables[i].rows
           /\ sheet.tables[i].start_col <= current_col
           /\ current_col < sheet.tables[i].start_col + sheet.tables[i].cols
    THEN <<sheet.tables[CHOOSE i \in DOMAIN sheet.tables :
              /\ sheet.tables[i].start_row <= current_row
              /\ current_row < sheet.tables[i].start_row + sheet.tables[i].rows
              /\ sheet.tables[i].start_col <= current_col
              /\ current_col < sheet.tables[i].start_col + sheet.tables[i].cols
              /\ \A j \in 1..(i - 1) :
                    ~(/\ sheet.tables[j].start_row <= current_row
                      /\ current_row < sheet.tables[j].start_row + sheet.tables[j].rows
                      /\ sheet.tables[j].start_col <= current_col
                      /\ current_col < sheet.tables[j].start_col + sheet.tables[j].cols)]>>
    ELSE <<>>

\* The rows of the table below its header, each the texts of its cells, ""
\* for a cell without an item
TableData(sheet, table) ==
    [i \in 1..Max(table.rows - 1, 0) |->
        [j \in 1..Max(table.cols, 0) |->
            IF HasItem(sheet, table.start_row + i, table.start_col + j - 1)
            THEN ItemText(sheet, table.start_row + i, table.start_col + j - 1)
            ELSE <<>>]]

\* The items sort_table sets for the rows data of the table, in order
SortedItems(table, data) ==
    [i \in 1..(Len(data) * Max(table.cols, 0)) |->
        [row |-> table.start_row + ((i - 1) \div table.cols) + 1,
         col |-> table.start_col + ((i - 1) % table.cols),
         text |-> data[((i - 1) \div table.cols) + 1][((i - 1) % table.cols) + 1]]]

\* sort_table once the table is found
SortFound(w, table, k) ==
    SetItems(w, w.cur,
             SortedItems(table,
                         SortedRows(TableData(w.tabs[w.cur].sheet, table), k,
                                    Max(table.rows - 1, 0))))

\* sort_table with (current_row, current_col) the current cell of the current
\* sheet: without a table around the cell a warning is shown
sort_table(w, current_row, current_col) ==
    IF FindTable(w.tabs[w.cur].sheet, current_row, current_col) = <<>> THEN Done(w)
    ELSE SortFound(w, FindTable(w.tabs[w.cur].sheet, current_row, current_col)[1],
                   current_col
                     - FindTable(w.tabs[w.cur].sheet, current_row, current_col)[1].start_col
                     + 1)

----------------------------------------------------------------------------
(* Validation rules: add_data_validation *)

Rule(type, min, max) == [type |-> type, min |-> min, max |-> max]

\* The rule the dialog describes: min and max are kept for a Custom Range only
DialogRule(type, min, max) ==
    Rule(type, IF type = "Custom Range" THEN min ELSE None,
               IF type = "Custom Range" THEN max ELSE None)

\* add_data_validation with the dialog accepted: the items looped over are
\* self.spreadsheet.selectedItems(), and the rule of each is stored in
\* self.cell_validations, the window's mapping
add_data_validation(win, selected, type, min, max) ==
    IF "spreadsheet" \notin DOMAIN win THEN Raised("AttributeError", win)
    ELSE Returned(None,
           [win EXCEPT !.cell_validations =
               [id \in (DOMAIN win.cell_validations)
                       \cup {get_cell_id(rc[1], rc[2]) :
                               rc \in selected \cap DOMAIN win.spreadsheet.cells} |->
                   IF \E rc \in selected \cap DOMAIN win.spreadsheet.cells :
                          id = get_cell_id(rc[1], rc[2])
                   THEN DialogRule(type, min, max)
                   ELSE win.cell_validations[id]]])

----------------------------------------------------------------------------
(* Persistence: save_file, open_file *)

\* The path the file dialogs return
FileName == <<"b","o","o","k",".","x","l","a","s">>

RECURSIVE RowMajor(_)
\* The coordinates of S by ascending row and, within a row, ascending column
RowMajor(S) ==
    IF S = {} THEN <<>>
    ELSE <<CHOOSE x \in S : \A y \in S : x[1] < y[1] \/ (x[1] = y[1] /\ x[2] <= y[2])>>
         \o RowMajor(S \ {CHOOSE x \in S : \A y \in S : x[1] < y[1] \/ (x[1] = y[1] /\ x[2] <= y[2])})

\* sheet_data['cells'] in insertion order, given the sheet's coordinates in
\* the order of the two loops: one entry per item (the brush of an item's
\* background always has a valid colour), keyed by the item's address; of
\* the entry's fields the text is modelled
SavedCells(sheet, coords) ==
    [i \in DOMAIN coords |->
        [id |-> get_cell_id(coords[i][1], coords[i][2]),
         text |-> ItemText(sheet, coords[i][1], coords[i][2])]]

\* sheet_data of one tab
SheetData(tab) ==
    [name |-> tab.name,
     cells |-> SavedCells(tab.sheet, RowMajor(DOMAIN tab.sheet.cells)),
     tables |-> tab.sheet.tables,
     validations |-> tab.sheet.cell_validations]

\* data['sheets'] as save_file fills it: the assignment
\* data['sheets'][sheet_name] = sheet_data stands after the loop over the
\* sheets, so it stores the sheet the loop ended with
SavedSheets(tabs_) == <<SheetData(tabs_[Len(tabs_)])>>

\* save_file with filename the path in use: with no sheet the assignment
\* after the loop raises NameError, which the handler reports, and nothing
\* is written; val is the documents written
save_file(w, filename) ==
    IF Len(w.tabs) = 0 THEN Returned(<<>>, w.window)
    ELSE Returned(<<[sheets |-> SavedSheets(w.tabs)]>>,
                  [w.window EXCEPT !.current_file_path = filename])

RECURSIVE RestoreCells(_, _, _)

\* The rest of the loop over the cells after one setItem returned r
RestoreAfter(r, k, cells) ==
    IF r.exc # "none" THEN r ELSE RestoreCells(r.w, k, cells)

\* open_file, lines 757-779: each stored cell is decoded and set on the new
\* sheet (tab k, not yet added), whose itemChanged is already connected
RestoreCells(w, k, cells) ==
    IF Len(cells) = 0 THEN Done(w)
    ELSE RestoreAfter(set_item(w, k, OpenFileCoord(cells[1].id)[1],
                               OpenFileCoord(cells[1].id)[2], cells[1].text),
                      k, Tail(cells))

RECURSIVE LoadSheets(_, _)

\* open_file, lines 781-785: the tables and validations are attached and the
\* sheet is added; the first tab added becomes the current one
AddLoaded(r, data, rest) ==
    IF r.exc # "none" THEN r
    ELSE LoadSheets([r.w EXCEPT !.tabs[Len(r.w.tabs)].sheet.tables = data.tables,
                                !.tabs[Len(r.w.tabs)].sheet.cell_validations = data.validations,
                                !.cur = IF r.w.cur = 0 THEN 1 ELSE r.w.cur],
                    rest)

\* The loop of open_file over the sheets of the document
LoadSheets(w, sheets) ==
    IF Len(sheets) = 0 THEN Done(w)
    ELSE AddLoaded(RestoreCells([w EXCEPT !.tabs = Append(@, [name |-> sheets[1].name,
                                                              sheet |-> NewSheet])],
                                Len(w.tabs) + 1, sheets[1].cells),
                   sheets[1], Tail(sheets))

\* open_file, lines 787-791: the first sheet is selected and the path kept
Opened(r, filename) ==
    IF r.exc # "none" THEN r
    ELSE Done([r.w EXCEPT !.cur = IF Len(r.w.tabs) > 0 THEN 1 ELSE 0,
                          !.window.current_file_path = filename])

\* open_file of the document data read from filename: the tabs are removed,
\* then the sheets are loaded
open_file(w, data, filename) ==
    Opened(LoadSheets([w EXCEPT !.tabs = <<>>, !.cur = 0], data.sheets), filename)

----------------------------------------------------------------------------
(* The address codec as a state machine: encode a coordinate, then decode
   the address both ways the code decodes one. *)

Idle == [name |-> "idle"]

\* The name add_sheet offers for the first sheet
SheetName == <<"S","h","e","e","t","1">>

\* ExcelClone.__init__: the attributes it assigns (clipboard, sort_order and
\* table_styles play no part here) and the first sheet, named by the user
InitWorkbook(name) ==
    /\ tabs = <<[name |-> name, sheet |-> NewSheet]>>
    /\ cur = 1
    /\ window = [cell_validations |-> <<>>, current_file_path |-> None]
    /\ disk = <<>>
    /\ op = Idle
    /\ ret = None
    /\ exc = "none"

InitCodec == InitWorkbook(SheetName)

Encode(row, col) ==
    /\ op' = [name |-> "get_cell_id", row |-> row, col |-> col]
    /\ ret' = get_cell_id(row, col)
    /\ UNCHANGED <<tabs, cur, window, disk, exc>>

Decode ==
    /\ op.name = "get_cell_id"
    /\ op' = [name |-> "decode", row |-> op.row, col |-> op.col, cell_id |-> ret]
    /\ ret' = [from_id |-> IF MatchCellId(ret).matched THEN CellIdCoord(ret) ELSE <<>>,
               open_file |-> OpenFileCoord(ret)]
    /\ UNCHANGED <<tabs, cur, window, disk, exc>>

NextCodec ==
    \/ \E row \in 0..MaxRow, col \in 0..25 : Encode(row, col)
    \/ Decode

SpecCodec == InitCodec /\ [][NextCodec]_vars

\* C1: for every coordinate (row, col) with row >= 0 and col in 0..25, decoding
\* the address get_cell_id(row, col) produced gives back exactly <<row, col>>,
\* by the pattern of get_cell_from_id and by the slicing of open_file alike.
C1_RoundTrip ==
    op.name = "decode" =>
        /\ ret.from_id = <<op.row, op.col>>
        /\ ret.open_file = <<op.row, op.col>>

\* A two-digit row number in the last column has been encoded and decoded
C1_Witness ==
    /\ op.name = "decode"
    /\ op.row = 10
    /\ op.col = 25
    /\ op.cell_id = <<"Z", "1", "1">>
    /\ ret.from_id = <<10, 25>>

----------------------------------------------------------------------------
(* Validation as a state machine: a workbook whose only sheet carries the
   rules of RuleBook (as after opening a document that holds them), and one
   text committed into one of its cells. *)

\* The validation rules of the sheet, keyed by address
RuleBook ==
    [id \in {<<"A","1">>, <<"B","1">>, <<"C","1">>, <<"D","1">>,
             <<"E","1">>, <<"F","1">>, <<"H","1">>} |->
        IF id = <<"A","1">> THEN Rule("Number Only", None, None)
        ELSE IF id = <<"B","1">> THEN Rule("Text Only", None, None)
        ELSE IF id = <<"C","1">> THEN Rule("Custom Range", <<"1">>, <<"1","0">>)
        ELSE IF id = <<"D","1">> THEN Rule("Custom Range", <<>>, <<"5">>)
        ELSE IF id = <<"E","1">> THEN Rule("Custom Range", <<"0",".","5">>, None)
        ELSE IF id = <<"F","1">> THEN Rule("Any Value", None, None)
        ELSE Rule("Custom Range", <<"a">>, <<"5">>)]

\* Columns A..H of row 1: G1 carries no rule
RuleColumns == 0..7

\* The characters of the texts committed
ValidationChars == {"0", "1", "5", ".", "-", " ", "i", "n", "f", "a"}

\* Every text of at most n characters
Texts(n) == UNION {[1..k -> ValidationChars] : k \in 0..n}

InitValidate ==
    /\ tabs = <<[name |-> SheetName, sheet |-> [NewSheet EXCEPT !.cell_validations = RuleBook]]>>
    /\ cur = 1
    /\ window = [cell_validations |-> <<>>, current_file_path |-> None]
    /\ disk = <<>>
    /\ op = Idle
    /\ ret = None
    /\ exc = "none"

\* The user commits text into the cell (row, col) of the current sheet: the
\* table stores it in the cell's item and emits itemChanged
EditCell(row, col, text) ==
    /\ exc = "none"
    /\ cur # 0
    /\ HasItem(tabs[cur].sheet, row, col) => ItemText(tabs[cur].sheet, row, col) # text
    /\ LET r == set_item(World(tabs, cur, window), cur, row, col, text)
       IN  /\ tabs' = r.w.tabs
           /\ window' = r.w.window
           /\ exc' = r.exc
    /\ op' = [name |-> "cell_changed", row |-> row, col |-> col, text |-> text,
              valid |-> validate_cell_input(tabs[cur].sheet, row, col, text),
              had |-> tabs[cur].sheet.cells]
    /\ ret' = None
    /\ UNCHANGED <<cur, disk>>

NextValidate ==
    /\ tabs[cur].sheet.cells = <<>>
    /\ \E col \in RuleColumns, text \in Texts(MaxLen) : EditCell(0, col, text)

SpecValidate == InitValidate /\ [][NextValidate]_vars

\* The bound a Custom Range rule states: unset (None or "") is the infinity
Bound(b, unset) == IF b = None \/ b = <<>> THEN Parsed(unset) ELSE ParseFloat(b)

\* C6: under a Custom Range rule whose bounds are unset or numbers, a
\* committed text is accepted iff it parses as a number v with
\* min <= v <= max, an unset bound being -inf / +inf; a text that is no
\* number is rejected, and a rejected text does not stay in the cell.
C6_CustomRange ==
    op.name = "cell_changed" =>
        LET id == get_cell_id(op.row, op.col)
            rules == tabs[cur].sheet.cell_validations
            lo == Bound(rules[id].min, NegInf)
            hi == Bound(rules[id].max, PosInf)
            v == ParseFloat(op.text)
        IN  (id \in DOMAIN rules /\ rules[id].type = "Custom Range" /\ lo.ok /\ hi.ok) =>
                /\ op.valid = (v.ok /\ NumLe(lo.v, v.v) /\ NumLe(v.v, hi.v))
                /\ ~v.ok => ~op.valid
                /\ ~op.valid => ItemText(tabs[cur].sheet, op.row, op.col) = <<>>
                /\ op.valid => ItemText(tabs[cur].sheet, op.row, op.col) = op.text

\* "15" was committed under Custom Range(1, 10) and rejected
C6_Witness ==
    /\ op.name = "cell_changed"
    /\ op.col = 2
    /\ op.text = <<"1","5">>
    /\ ~op.valid
    /\ ItemText(tabs[cur].sheet, 0, 2) = <<>>

\* C7: every text is accepted by exactly one of Number Only (A1) and Text
\* Only (B1): Number Only accepts iff the text parses as a number, Text Only
\* iff it does not; the empty text is accepted by Text Only and rejected by
\* Number Only.
C7_NumberXorText ==
    op.name = "cell_changed" =>
        LET sheet == tabs[cur].sheet
            number_only == validate_cell_input(sheet, 0, 0, op.text)
            text_only == validate_cell_input(sheet, 0, 1, op.text)
        IN  /\ number_only # text_only
            /\ number_only = ParseFloat(op.text).ok
            /\ op.text = <<>> => (text_only /\ ~number_only)
            /\ op.col = 0 => op.valid = number_only
            /\ op.col = 1 => op.valid = text_only

\* The empty text was committed under Text Only and accepted
C7_Witness ==
    /\ op.name = "cell_changed"
    /\ op.col = 1
    /\ op.text = <<>>
    /\ op.valid
    /\ HasItem(tabs[cur].sheet, 0, 1)

----------------------------------------------------------------------------
(* The evaluator as a state machine: a freshly constructed workbook, literal
   texts committed into the cells A1, A2, A3 and B1 of its sheet, and
   formulas handed to evaluate_formula, directly or by committing them into
   C1.  A run ends with the formula committed into C1. *)

DataCells == {<<0, 0>>, <<1, 0>>, <<2, 0>>, <<0, 1>>}

Literals == {<<"0">>, <<"1">>, <<"4">>, <<"5">>, <<"1","0">>, <<"x">>}

\* The literals committed into each cell
LiteralsFor(rc) ==
    IF rc = <<0, 0>> THEN {<<"0">>, <<"1">>, <<"1","0">>, <<"x">>}
    ELSE IF rc = <<1, 0>> THEN {<<"0">>, <<"5">>}
    ELSE IF rc = <<2, 0>> THEN {<<"0">>, <<"4">>}
    ELSE {<<"0">>, <<"5">>}

Hello == <<"h","e","l","l","o">>

F_Div == <<"=","A","1","/","B","1">>
F_Sum == <<"=","S","U","M","(","A","1",":","A","3",")">>
F_SumReversed == <<"=","S","U","M","(","A","3",":","A","1",")">>
F_Count == <<"=","C","O","U","N","T","(","A","1",":","A","3",")">>
F_Average == <<"=","A","V","E","R","A","G","E","(","A","1",":","A","3",")">>
F_Add == <<"=","1","+","2">>
F_DivZero == <<"=","1","/","0">>
F_Malformed == <<"=","1","+">>
F_BadRange == <<"=","S","U","M","(","A","1",")">>

Formulas == {F_Div, F_Sum, F_SumReversed, F_Count, F_Average, F_Add,
             F_DivZero, F_Malformed, F_BadRange}

FormulaCell == <<0, 2>>

\* A caller hands formula to evaluate_formula
CallEvaluate(formula) ==
    /\ exc = "none"
    /\ LET r == evaluate_formula(window, formula)
       IN  /\ ret' = r.val
           /\ exc' = r.exc
           /\ window' = r.win
    /\ op' = [name |-> "evaluate_formula", formula |-> formula,
              had |-> tabs[cur].sheet.cells]
    /\ UNCHANGED <<tabs, cur, disk>>

NextEval ==
    \/ /\ ~HasItem(tabs[cur].sheet, FormulaCell[1], FormulaCell[2])
       /\ \E rc \in DataCells : \E text \in LiteralsFor(rc) : EditCell(rc[1], rc[2], text)
    \/ /\ ~HasItem(tabs[cur].sheet, FormulaCell[1], FormulaCell[2])
       /\ \E f \in Formulas : EditCell(FormulaCell[1], FormulaCell[2], f)
    \/ /\ ~HasItem(tabs[cur].sheet, FormulaCell[1], FormulaCell[2])
       /\ \E f \in Formulas \cup Literals \cup {Hello, <<>>} : CallEvaluate(f)

SpecEval == InitWorkbook(SheetName) /\ [][NextEval]_vars

\* The formula handed to the evaluator by the last operation, if any: by a
\* direct call, or by an accepted edit that starts with "="
Evaluated_formula ==
    IF op.name = "evaluate_formula" THEN op.formula
    ELSE IF op.name = "cell_changed" /\ op.valid /\ StartsWith(op.text, <<"=">>) THEN op.text
    ELSE None

\* The cells A1, A2, A3 of the range A1:A3, in visiting order
RangeA1A3 == <<(<<0, 0>>), (<<1, 0>>), (<<2, 0>>)>>

\* The numeric value of a cell before the last operation: 0 for a cell that
\* is absent or empty
ValueBefore(rc) ==
    IF rc \notin DOMAIN op.had \/ op.had[rc] = <<>> THEN PyFloat(0, 1)
    ELSE ParseFloat(op.had[rc]).v

NumericBefore(rc) ==
    rc \notin DOMAIN op.had \/ op.had[rc] = <<>> \/ ParseFloat(op.had[rc]).ok

\* A number as its natural decimal string: "5" for five, "0.5" for a half
NaturalStr(x) == IF x.d = 1 THEN IntToStr(x.n) ELSE NumToStr(ToFloat(x))

\* C2: evaluate_formula never raises: whatever the text and the grid, no
\* exception escapes it, and a malformed expression, a division by zero, a
\* malformed range and a non-numeric referenced cell are answered with a
\* string that begins with "ERROR".
C2_NeverRaises ==
    op.name = "evaluate_formula" =>
        /\ exc = "none"
        /\ op.formula \in {F_DivZero, F_Malformed, F_BadRange} => StartsWith(ret, ErrPrefix)
        /\ (/\ op.formula = F_Div
            /\ <<0, 1>> \in DOMAIN op.had
            /\ op.had[<<0, 1>>] = <<"0">>) => StartsWith(ret, ErrPrefix)
        /\ (/\ op.formula = F_Div
            /\ <<0, 0>> \in DOMAIN op.had
            /\ op.had[<<0, 0>>] = <<"x">>) => StartsWith(ret, ErrPrefix)

\* C3: a text that does not start with "=" is returned unchanged, no
\* exception is raised, and no cell of any sheet and no attribute of the
\* window is written.
C3_LiteralPassthrough ==
    [][(op'.name = "evaluate_formula" /\ ~StartsWith(op'.formula, <<"=">>)) =>
          (ret' = op'.formula /\ exc' = "none" /\ tabs' = tabs /\ window' = window)]_vars

\* "hello" came back from evaluate_formula on a grid that holds cells
C3_Witness ==
    /\ op.name = "evaluate_formula"
    /\ op.formula = Hello
    /\ ret = Hello
    /\ HasItem(tabs[cur].sheet, 0, 0)
    /\ HasItem(tabs[cur].sheet, 0, 1)

\* C4: "=SUM(A1:A3)" over cells that are numeric, empty or absent returns the
\* sum of their values, an empty or absent cell counting 0, as the number's
\* natural decimal string: "5" for A1 = "1", A2 absent, A3 = "4".
C4_Sum ==
    (Evaluated_formula = F_Sum /\ \A i \in 1..3 : NumericBefore(RangeA1A3[i])) =>
        /\ exc = "none"
        /\ op.name = "evaluate_formula" =>
              ret = NaturalStr(SumOf([i \in 1..3 |-> ValueBefore(RangeA1A3[i])]))
        /\ op.name = "cell_changed" =>
              ItemText(tabs[cur].sheet, op.row, op.col)
                  = NaturalStr(SumOf([i \in 1..3 |-> ValueBefore(RangeA1A3[i])]))

\* C5: "=COUNT(A1:A3)" over cells that are numeric, empty or absent returns
\* the number of cells whose value is not zero: "1" for the values 0, 5, 0.
C5_Count ==
    (Evaluated_formula = F_Count /\ \A i \in 1..3 : NumericBefore(RangeA1A3[i])) =>
        /\ exc = "none"
        /\ op.name = "evaluate_formula" =>
              ret = IntToStr(Cardinality({i \in 1..3 : ValueBefore(RangeA1A3[i]).n # 0}))
        /\ op.name = "cell_changed" =>
              ItemText(tabs[cur].sheet, op.row, op.col)
                  = IntToStr(Cardinality({i \in 1..3 : ValueBefore(RangeA1A3[i]).n # 0}))

\* C10: after an aggregate over A1:A3 (in either order of the end points) is
\* evaluated, every cell of the range that was absent before exists in the
\* current sheet with text "0".
C10_Materialized ==
    Evaluated_formula \in {F_Sum, F_SumReversed, F_Count, F_Average} =>
        \A i \in 1..3 :
            RangeA1A3[i] \notin DOMAIN op.had =>
                /\ HasItem(tabs[cur].sheet, RangeA1A3[i][1], RangeA1A3[i][2])
                /\ ItemText(tabs[cur].sheet, RangeA1A3[i][1], RangeA1A3[i][2]) = <<"0">>

----------------------------------------------------------------------------
(* The workbook as a state machine: sheets are added, closed and selected,
   cells edited, tables inserted, rules set, the document saved and opened.
   disk holds the document of the file at FileName once it is written. *)

MaxTables == 1

\* The names the user gives to sheets
SheetNames == {<<"S">> \o NatToStr(n) : n \in 1..MaxSheets}

BookCells == {<<0, 0>>}

BookTexts == {<<"5">>, <<"x">>}

\* A document written by another run: the first sheet restricts A1 to
\* numbers, the second holds a word in A1
SampleData ==
    [sheets |-> <<[name |-> <<"S", "1">>,
                   cells |-> <<[id |-> <<"A", "1">>, text |-> <<"5">>]>>,
                   tables |-> <<>>,
                   validations |-> (<<"A", "1">> :> Rule("Number Only", None, None))],
                  [name |-> <<"S", "2">>,
                   cells |-> <<[id |-> <<"A", "1">>, text |-> <<"x">>]>>,
                   tables |-> <<>>,
                   validations |-> <<>>]>>]

\* The first sheet is given the first of the names
InitBook == InitWorkbook(<<"S", "1">>)

\* add_sheet with the dialog answered by a name no tab carries
AddSheet(name) ==
    /\ exc = "none"
    /\ Len(tabs) < MaxSheets
    /\ \A i \in DOMAIN tabs : tabs[i].name # name
    /\ tabs' = add_sheet(World(tabs, cur, window), name).tabs
    /\ cur' = add_sheet(World(tabs, cur, window), name).cur
    /\ op' = [name |-> "add_sheet"]
    /\ ret' = None
    /\ UNCHANGED <<window, disk, exc>>

\* The close button of tab index
CloseSheet(index) ==
    /\ exc = "none"
    /\ index \in DOMAIN tabs
    /\ tabs' = close_sheet(World(tabs, cur, window), index).tabs
    /\ cur' = close_sheet(World(tabs, cur, window), index).cur
    /\ op' = [name |-> "close_sheet"]
    /\ ret' = None
    /\ UNCHANGED <<window, disk, exc>>

\* The user selects tab index
SelectTab(index) ==
    /\ exc = "none"
    /\ index \in DOMAIN tabs
    /\ index # cur
    /\ cur' = index
    /\ op' = [name |-> "select_tab"]
    /\ ret' = None
    /\ UNCHANGED <<tabs, window, disk, exc>>

\* insert_table with the dialog accepted and (start_row, start_col) the
\* current cell of the current sheet, while the sheet holds fewer than limit
\* tables
InsertTableBelow(limit, start_row, start_col, rows, cols) ==
    /\ exc = "none"
    /\ cur # 0
    /\ Len(tabs[cur].sheet.tables) < limit
    /\ LET r == create_table(World(tabs, cur, window), start_row, start_col, rows, cols)
       IN  /\ tabs' = r.w.tabs
           /\ window' = r.w.window
           /\ exc' = r.exc
    /\ op' = [name |-> "create_table", had |-> tabs[cur].sheet.tables,
              table |-> Table(start_row, start_col, rows, cols)]
    /\ ret' = None
    /\ UNCHANGED <<cur, disk>>

InsertTable(start_row, start_col, rows, cols) ==
    InsertTableBelow(MaxTables, start_row, start_col, rows, cols)

\* sort_table with (current_row, current_col) the current cell
SortTable(current_row, current_col) ==
    /\ exc = "none"
    /\ cur # 0
    /\ LET r == sort_table(World(tabs, cur, window), current_row, current_col)
       IN  /\ tabs' = r.w.tabs
           /\ window' = r.w.window
           /\ exc' = r.exc
    /\ op' = [name |-> "sort_table", row |-> current_row, col |-> current_col,
              table |-> FindTable(tabs[cur].sheet, current_row, current_col),
              had |-> tabs[cur].sheet.cells, tables |-> tabs[cur].sheet.tables]
    /\ ret' = None
    /\ UNCHANGED <<cur, disk>>

\* add_data_validation with the dialog accepted, the cell (row, col) of the
\* current sheet selected
AddDataValidation(row, col, type, min, max) ==
    /\ exc = "none"
    /\ cur # 0
    /\ LET r == add_data_validation(window, {<<row, col>>}, type, min, max)
       IN  /\ window' = r.win
           /\ exc' = r.exc
    /\ op' = [name |-> "add_data_validation", row |-> row, col |-> col,
              rule |-> DialogRule(type, min, max)]
    /\ ret' = None
    /\ UNCHANGED <<tabs, cur, disk>>

\* save_file, the dialog (shown while no path is in use) answered by FileName
SaveFile ==
    /\ exc = "none"
    /\ LET r == save_file(World(tabs, cur, window), FileName)
       IN  /\ window' = r.win
           /\ disk' = IF r.val = <<>> THEN disk ELSE r.val
           /\ op' = [name |-> "save_file", written |-> r.val # <<>>, saved |-> tabs]
    /\ ret' = None
    /\ UNCHANGED <<tabs, cur, exc>>

\* open_file, the dialog answered by a file holding data; saved holds the
\* tabs save_file has just written the file from, and is empty otherwise
OpenFile(data, saved) ==
    /\ exc = "none"
    /\ LET r == open_file(World(tabs, cur, window), data, FileName)
       IN  /\ tabs' = r.w.tabs
           /\ cur' = r.w.cur
           /\ window' = r.w.window
           /\ exc' = r.exc
    /\ op' = [name |-> "open_file", saved |-> saved]
    /\ ret' = None
    /\ UNCHANGED disk

Next ==
    \/ \E name \in SheetNames : AddSheet(name)
    \/ \E index \in 1..MaxSheets : CloseSheet(index)
    \/ \E index \in 1..MaxSheets : SelectTab(index)
    \/ \E rc \in BookCells : \E text \in BookTexts : EditCell(rc[1], rc[2], text)
    \/ \E rc \in BookCells : InsertTable(rc[1], rc[2], 2, 1)
    \/ \E rc \in BookCells : AddDataValidation(rc[1], rc[2], "Number Only", <<>>, <<>>)
    \/ SaveFile
    \/ disk # <<>> /\ OpenFile(disk[1], IF op.name = "save_file" /\ op.written
                                           THEN <<op.saved>> ELSE <<>>)
    \/ OpenFile(SampleData, <<>>)

Spec == InitBook /\ [][Next]_vars

\* The texts of the non-empty cells of a sheet, keyed by coordinate
Texts_of(sheet) ==
    [rc \in {x \in DOMAIN sheet.cells : sheet.cells[x] # <<>>} |-> sheet.cells[rc]]

\* C8: after a validation rule is set for an address of a sheet, the
\* rule is stored in the mapping owned by that sheet
C8_RuleStored ==
    op.name = "add_data_validation" =>
        /\ exc = "none"
        /\ get_cell_id(op.row, op.col) \in DOMAIN tabs[cur].sheet.cell_validations
        /\ tabs[cur].sheet.cell_validations[get_cell_id(op.row, op.col)] = op.rule

\* C9: opening the file save_file has just written restores, for every sheet
\* of the document saved, the same name, the same cell texts at the same
\* addresses, the same table regions and the same validation rules
C9_SaveLoadRoundTrip ==
    (op.name = "open_file" /\ op.saved # <<>> /\ exc = "none") =>
        /\ Len(tabs) = Len(op.saved[1])
        /\ \A i \in DOMAIN tabs :
              /\ tabs[i].name = op.saved[1][i].name
              /\ Texts_of(tabs[i].sheet) = Texts_of(op.saved[1][i].sheet)
              /\ tabs[i].sheet.tables = op.saved[1][i].sheet.tables
              /\ tabs[i].sheet.cell_validations = op.saved[1][i].sheet.cell_validations

----------------------------------------------------------------------------
(* Sorting as a state machine: a table of a header and two data rows in the
   columns A and B, made by insert_table or read from a file; the data cells
   are edited and the table is sorted by either column. *)

\* A document whose sheet holds a table of one column, with A3 restricted
\* to numbers
SortData ==
    [sheets |-> <<[name |-> SheetName,
                   cells |-> <<[id |-> <<"A", "1">>, text |-> Header \o <<"1">>],
                               [id |-> <<"A", "2">>, text |-> <<"2">>],
                               [id |-> <<"A", "3">>, text |-> <<"1", "0">>]>>,
                   tables |-> <<Table(0, 0, 3, 1)>>,
                   validations |-> (<<"A", "3">> :> Rule("Number Only", None, None))]>>]

SortCells == {<<1, 0>>, <<2, 0>>, <<1, 1>>}

SortTexts == {<<"1", "0">>, <<"2">>, <<"b">>}

\* The cells the user may stand on when sorting: in either column of the
\* table, and outside it
SortFrom == {<<1, 0>>, <<2, 1>>, <<4, 4>>}

NextSort ==
    \/ InsertTable(0, 0, 3, 2)
    \/ OpenFile(SortData, <<>>)
    \/ \E rc \in SortCells : \E text \in SortTexts : EditCell(rc[1], rc[2], text)
    \/ \E rc \in SortFrom : SortTable(rc[1], rc[2])

SpecSort == InitWorkbook(SheetName) /\ [][NextSort]_vars

\* The text of the cell (row, col) of the current sheet, "" without an item
TextAt(row, col) ==
    IF HasItem(tabs[cur].sheet, row, col) THEN ItemText(tabs[cur].sheet, row, col)
    ELSE <<>>

\* C11: after sort_table on a cell of a table, for every pair of consecutive
\* data rows of the table the text in the pivot column of the upper row is
\* lexically <= that of the lower row (so "10" stands above "2").
C11_SortedLexically ==
    (op.name = "sort_table" /\ op.table # <<>> /\ exc = "none") =>
        \A i \in 1..(op.table[1].rows - 2) :
            ~StrLess(TextAt(op.table[1].start_row + i + 1, op.col),
                     TextAt(op.table[1].start_row + i, op.col))

\* The text the cell (row, col) of the current sheet held before the sort, ""
\* without an item
TextBefore(row, col) ==
    IF <<row, col>> \in DOMAIN op.had THEN op.had[<<row, col>>] ELSE <<>>

\* The data rows of the table sorted, as tuples of texts, before the sort
RowsBefore == TableData([tabs[cur].sheet EXCEPT !.cells = op.had], op.table[1])

\* The data rows of the table sorted, as tuples of texts, after the sort
RowsAfter == TableData(tabs[cur].sheet, op.table[1])

\* The number of places of the sequence rows that hold the tuple t
Occurrences(rows, t) == Cardinality({i \in DOMAIN rows : rows[i] = t})

\* The cell (row, col) is in a data row of the table
InDataRows(table, row, col) ==
    /\ table.start_row < row /\ row < table.start_row + table.rows
    /\ table.start_col <= col /\ col < table.start_col + table.cols

\* C21: sort_table changes nothing but the order of the data rows of the
\* table: the header row and every cell outside the table keep their text,
\* the data rows after the sort are the data rows before it, each as many
\* times, and the tables of the sheet are unchanged.
C21_SortFrame ==
    (op.name = "sort_table" /\ op.table # <<>> /\ exc = "none") =>
        /\ \A row \in 0..(RowCount - 1) : \A col \in 0..(ColumnCount - 1) :
              ~InDataRows(op.table[1], row, col) =>
                  TextAt(row, col) = TextBefore(row, col)
        /\ \A i \in DOMAIN RowsBefore :
              Occurrences(RowsAfter, RowsBefore[i]) = Occurrences(RowsBefore, RowsBefore[i])
        /\ tabs[cur].sheet.tables = op.tables

----------------------------------------------------------------------------
(* Editing as a state machine: literals are committed into A1 and A2,
   formulas into B1 and B2, on a sheet made by the constructor or read from
   a file that restricts A1 to numbers. *)

\* A document whose sheet holds "1" in A1 and restricts A1 to numbers
EditData ==
    [sheets |-> <<[name |-> SheetName,
                   cells |-> <<[id |-> <<"A", "1">>, text |-> <<"1">>]>>,
                   tables |-> <<>>,
                   validations |-> (<<"A", "1">> :> Rule("Number Only", None, None))]>>]

EditCells == {<<0, 0>>, <<1, 0>>}

EditTexts == {<<"1">>, <<"2">>, <<"x">>}

EditFormulaCells == {<<0, 1>>, <<1, 1>>}

F_SumA1A2 == <<"=","S","U","M","(","A","1",":","A","2",")">>
F_AddCells == <<"=","A","1","+","A","2">>

EditFormulas == {F_SumA1A2, F_AddCells, F_Add}

NextEdit ==
    \/ OpenFile(EditData, <<>>)
    \/ \E rc \in EditCells : \E text \in EditTexts : EditCell(rc[1], rc[2], text)
    \/ \E rc \in EditFormulaCells : \E f \in EditFormulas : EditCell(rc[1], rc[2], f)

SpecEdit == InitWorkbook(SheetName) /\ [][NextEdit]_vars

\* C12: committing an edit to a cell, the evaluation of its formula included,
\* leaves the text of every other cell that existed before as it was.
C12_NoRecalculation ==
    op.name = "cell_changed" =>
        \A rc \in DOMAIN op.had :
            rc # <<op.row, op.col>> =>
                /\ HasItem(tabs[cur].sheet, rc[1], rc[2])
                /\ ItemText(tabs[cur].sheet, rc[1], rc[2]) = op.had[rc]

\* A1 has been given a new text while B1 held the answer to "=SUM(A1:A2)",
\* and B1 holds it still
C12_Witness ==
    /\ op.name = "cell_changed"
    /\ exc = "none"
    /\ <<op.row, op.col>> = <<0, 0>>
    /\ <<0, 0>> \in DOMAIN op.had
    /\ ItemText(tabs[cur].sheet, 0, 0) # op.had[<<0, 0>>]
    /\ <<0, 1>> \in DOMAIN op.had
    /\ op.had[<<0, 1>>] = evaluate_formula(window, F_SumA1A2).val
    /\ ItemText(tabs[cur].sheet, 0, 1) = op.had[<<0, 1>>]

\* C13: after an accepted edit commits a text that starts with "=", the
\* cell holds the string the evaluator returned for it and not the formula.
C13_ResultStored ==
    (op.name = "cell_changed" /\ op.valid /\ StartsWith(op.text, <<"=">>)) =>
        /\ exc = "none"
        /\ ItemText(tabs[cur].sheet, op.row, op.col) # op.text
        /\ ItemText(tabs[cur].sheet, op.row, op.col) = evaluate_formula(window, op.text).val

\* C20: when validation rejects a committed text, the cell's text afterwards
\* is its text before the edit ("" for a cell that was absent), no "ERROR"
\* string is in the cell and the evaluator has not been called.
C20_RejectedReverted ==
    (op.name = "cell_changed" /\ ~op.valid) =>
        /\ exc = "none"
        /\ ItemText(tabs[cur].sheet, op.row, op.col)
              = (IF <<op.row, op.col>> \in DOMAIN op.had THEN op.had[<<op.row, op.col>>]
                 ELSE <<>>)
        /\ ~StartsWith(ItemText(tabs[cur].sheet, op.row, op.col), ErrPrefix)

----------------------------------------------------------------------------
(* References as a state machine: literals are committed into A1, A2 and
   A10; addresses are decoded, ranges walked and formulas that name the
   cells evaluated. *)

RefCells == {<<0, 0>>, <<1, 0>>, <<9, 0>>}

RefTexts == {<<"1">>, <<"2">>, <<"x">>}

F_Ref == <<"=","A","1","+","1">>
F_Prefix == <<"=","A","1","+","A","1","0">>
F_Twice == <<"=","A","1","+","A","1">>
F_SumPlus == <<"=","S","U","M","(","A","1",":","A","2",")","+","1">>
F_SumA2A1 == <<"=","S","U","M","(","A","2",":","A","1",")">>
F_SumTrailing == <<"=","S","U","M","(","A","1","B",":","A","2",")">>
F_SumThree == <<"=","S","U","M","(","A","1",":","A","2",":","A","3",")">>

RefFormulas == {F_Ref, F_Prefix, F_Twice, F_SumPlus, F_SumA1A2, F_SumA2A1,
                F_SumTrailing, F_SumThree, F_BadRange}

\* Texts handed to get_cell_from_id
CellIds == {<<"A","1">>, <<"A","1","0">>, <<"A","1","B">>, <<"A","A","1">>, <<"a","1">>, <<"A">>, <<"1","A">>}

\* Texts handed to get_cells_in_range
RangeTexts == {<<"A","1",":","A","2">>, <<"A","2",":","A","1">>, <<"A","1">>, <<"A","1",":","A","2",":","A","3">>}

\* A caller hands cell_id to get_cell_from_id; matched records whether the
\* pattern of line 884 matched
CallGetCell(cell_id) ==
    /\ exc = "none"
    /\ LET r == get_cell_from_id(window, cell_id)
       IN  /\ ret' = r.val
           /\ exc' = r.exc
           /\ window' = r.win
    /\ op' = [name |-> "get_cell_from_id", cell_id |-> cell_id,
              matched |-> MatchCellId(cell_id).matched]
    /\ UNCHANGED <<tabs, cur, disk>>

\* A caller hands range_str to get_cells_in_range
CallGetCells(range_str) ==
    /\ exc = "none"
    /\ LET r == get_cells_in_range(window, range_str)
       IN  /\ ret' = r.val
           /\ exc' = r.exc
           /\ window' = r.win
    /\ op' = [name |-> "get_cells_in_range", range_str |-> range_str,
              had |-> tabs[cur].sheet.cells]
    /\ UNCHANGED <<tabs, cur, disk>>

NextRefs ==
    \/ \E rc \in RefCells : \E text \in RefTexts : EditCell(rc[1], rc[2], text)
    \/ \E f \in RefFormulas : CallEvaluate(f)
    \/ \E cell_id \in CellIds : CallGetCell(cell_id)
    \/ \E range_str \in RangeTexts : CallGetCells(range_str)

SpecRefs == InitWorkbook(SheetName) /\ [][NextRefs]_vars

\* The returned text is a number equal to x
ReturnsNumber(x) ==
    /\ exc = "none"
    /\ ParseFloat(ret).ok
    /\ NumEq(ParseFloat(ret).v, x)

\* C14: "=A1+1" with A1 absent is answered with the value 1, not with an
\* error string, and A1 exists afterwards with text "0".
C14_AbsentIsZero ==
    (op.name = "evaluate_formula" /\ op.formula = F_Ref /\ <<0, 0>> \notin DOMAIN op.had) =>
        /\ ReturnsNumber(PyInt(1))
        /\ HasItem(tabs[cur].sheet, 0, 0)
        /\ ItemText(tabs[cur].sheet, 0, 0) = <<"0">>

\* C15: a general arithmetic formula that names an existing cell whose text
\* is not a number is answered with exactly "ERROR: Invalid cell reference",
\* and that string is returned in no other case.
C15_InvalidReference ==
    (op.name = "evaluate_formula" /\ op.formula \in {F_Ref, F_Twice}) =>
        /\ exc = "none"
        /\ (ret = ErrCellReference)
              <=> (<<0, 0>> \in DOMAIN op.had /\ ~ParseFloat(op.had[<<0, 0>>]).ok)

\* C16: "=A1+A10" is answered with value(A1) + value(A10) and "=A1+A1" with
\* twice value(A1), for numeric A1 and A10.
C16_References ==
    /\ (/\ op.name = "evaluate_formula"
        /\ op.formula = F_Prefix
        /\ NumericBefore(<<0, 0>>)
        /\ NumericBefore(<<9, 0>>))
          => ReturnsNumber(NumAdd(ValueBefore(<<0, 0>>), ValueBefore(<<9, 0>>)))
    /\ (/\ op.name = "evaluate_formula"
        /\ op.formula = F_Twice
        /\ NumericBefore(<<0, 0>>))
          => ReturnsNumber(NumAdd(ValueBefore(<<0, 0>>), ValueBefore(<<0, 0>>)))

\* C17: "=SUM(A1:A2)+1" has text after the closing parenthesis, so it is not
\* handed to the aggregate: its answer is not the answer to "=SUM(A1:A2)".
C17_Dispatch ==
    (op.name = "evaluate_formula" /\ op.formula = F_SumPlus) =>
        ret # handle_special_function(window, From(F_SumA1A2, 1)).val

\* One uppercase letter followed by one or more digits and nothing else
WellFormed(cell_id) ==
    /\ Len(cell_id) >= 2
    /\ IsUpper(cell_id[1])
    /\ \A i \in 2..Len(cell_id) : IsDigit(cell_id[i])

\* C18: decoding fails for every text that is not exactly one uppercase
\* letter followed by digits ("A1B" included), and an aggregate whose inner
\* text is not two such addresses around one colon is answered with an
\* "ERROR" string.
C18_DecodeFails ==
    /\ (op.name = "get_cell_from_id" /\ ~WellFormed(op.cell_id)) =>
          (~op.matched /\ ret = None /\ exc = "none")
    /\ (op.name = "evaluate_formula" /\ op.formula \in {F_SumTrailing, F_SumThree, F_BadRange}) =>
          (exc = "none" /\ StartsWith(ret, ErrPrefix))

\* C19: the cells visited for "A1:A2" and for "A2:A1" are A1 then A2, and
\* the aggregates over the two ranges give the same answer.
C19_OrderIndependent ==
    /\ (op.name = "get_cells_in_range" /\ op.range_str \in {<<"A","1",":","A","2">>, <<"A","2",":","A","1">>}) =>
          /\ exc = "none"
          /\ ret = [i \in 1..2 |->
                       IF <<i - 1, 0>> \in DOMAIN op.had THEN op.had[<<i - 1, 0>>]
                       ELSE <<"0">>]
    /\ (op.name = "evaluate_formula" /\ op.formula \in {F_SumA1A2, F_SumA2A1}) =>
          /\ exc = "none"
          /\ ret = evaluate_formula(window, F_SumA1A2).val
          /\ ret = evaluate_formula(window, F_SumA2A1).val

----------------------------------------------------------------------------
(* Tables as a state machine: tables that overlap are inserted one after
   the other on a sheet, or read from a file, and the table is sorted from
   cells that one table, several tables or no table hold. *)

MaxRegions == 3

\* The tables the user inserts: B2 lies in the first three, F6 in the last
Shapes == {Table(0, 0, 2, 2), Table(1, 1, 2, 2), Table(1, 0, 3, 2), Table(5, 5, 2, 1)}

\* The cells the user may stand on when sorting
TableFrom == {<<0, 0>>, <<1, 1>>, <<2, 1>>, <<5, 5>>, <<9, 9>>}

NextTables ==
    \/ \E t \in Shapes :
          InsertTableBelow(MaxRegions, t.start_row, t.start_col, t.rows, t.cols)
    \/ OpenFile(SortData, <<>>)
    \/ \E rc \in TableFrom : SortTable(rc[1], rc[2])

SpecTables == InitWorkbook(SheetName) /\ [][NextTables]_vars

\* The places of the sequence tables_ whose table holds the cell
Holding(tables_, row, col) ==
    {i \in DOMAIN tables_ :
        /\ tables_[i].start_row <= row /\ row < tables_[i].start_row + tables_[i].rows
        /\ tables_[i].start_col <= col /\ col < tables_[i].start_col + tables_[i].cols}

\* C22: create_table puts the new table at the end of the sheet's tables,
\* whether or not it overlaps one of them, and leaves the tables before it
\* as they were; the lookup of sort_table selects, of the tables that hold
\* the current cell, the one inserted first, and none when no table holds it.
C22_AppendFirstMatch ==
    /\ (op.name = "create_table" /\ exc = "none") =>
           tabs[cur].sheet.tables = op.had \o <<op.table>>
    /\ op.name = "sort_table" =>
           /\ tabs[cur].sheet.tables = op.tables
           /\ IF Holding(op.tables, op.row, op.col) = {} THEN op.table = <<>>
              ELSE /\ op.table # <<>>
                   /\ \E i \in Holding(op.tables, op.row, op.col) :
                         /\ op.table[1] = op.tables[i]
                         /\ \A j \in Holding(op.tables, op.row, op.col) : i <= j

\* The table is sorted from a cell that two different tables hold
C22_Witness ==
    /\ op.name = "sort_table"
    /\ \E i, j \in Holding(op.tables, op.row, op.col) : op.tables[i] # op.tables[j]
    /\ op.table = <<op.tables[1]>>

----------------------------------------------------------------------------
(* The sheets of the workbook as a state machine: sheets are added (or the
   dialog is cancelled), closed and selected, a cell is edited, and files
   are opened, one of them a document without sheets. *)

\* A document that holds no sheet: {"sheets": {}}
EmptyData == [sheets |-> <<>>]

\* add_sheet with the dialog cancelled, lines 170-173: the handler returns
\* while there is a sheet; without one the dialog is shown again, and the
\* handler does not return until a name is given
AddSheetCancelled ==
    /\ exc = "none"
    /\ Len(tabs) # 0
    /\ op' = [name |-> "add_sheet_cancelled"]
    /\ ret' = None
    /\ UNCHANGED <<tabs, cur, window, disk, exc>>

NextSheets ==
    \/ \E name \in SheetNames : AddSheet(name)
    \/ AddSheetCancelled
    \/ \E index \in 1..MaxSheets : CloseSheet(index)
    \/ \E index \in 1..MaxSheets : SelectTab(index)
    \/ \E rc \in BookCells : \E text \in BookTexts : EditCell(rc[1], rc[2], text)
    \/ OpenFile(SampleData, <<>>)
    \/ OpenFile(EmptyData, <<>>)

SpecSheets == InitBook /\ [][NextSheets]_vars

\* C23: after any sequence of add_sheet, close_sheet and open_file the
\* workbook holds at least one sheet, and a sheet is the current one.
C23_AtLeastOneSheet ==
    /\ Len(tabs) >= 1
    /\ cur \in DOMAIN tabs

====
